---- MODULE Spec2Model ----
(***************************************************************************)
(* WebControl/mac2ip.py: get_ip_from_mac and list_arp_table.  Both run     *)
(* 'arp -a' through os.popen, split the text into lines, search every line *)
(* with the regular expression                                             *)
(*        (\d+\.\d+\.\d+\.\d+)\s+([-\w:]+)                                 *)
(* and normalise the MAC group with .lower().replace('-', ':').            *)
(* Text is modelled as a sequence of one-character strings.                *)
(***************************************************************************)
EXTENDS Naturals, Sequences, FiniteSets

VARIABLES pc, target_arg, target_mac, cmd, arp_output, lines, i, devices,
          origin, ret, popens, searches, prev

vars == <<pc, target_arg, target_mac, cmd, arp_output, lines, i, devices,
          origin, ret, popens, searches, prev>>

(***************************************************************************)
(* Character classes of the regular expression, over the modelled alphabet *)
(***************************************************************************)
LowerLetters == <<"a", "b", "c", "d", "e", "f", "g", "h", "i", "j", "k", "l", "m",
                  "n", "o", "p", "q", "r", "s", "t", "u", "v", "w", "x", "y", "z">>
UpperLetters == <<"A", "B", "C", "D", "E", "F", "G", "H", "I", "J", "K", "L", "M",
                  "N", "O", "P", "Q", "R", "S", "T", "U", "V", "W", "X", "Y", "Z">>

Range(s) == {s[k] : k \in 1..Len(s)}

\* \d
Digit == {"0", "1", "2", "3", "4", "5", "6", "7", "8", "9"}

\* \s (the line breaks are whitespace too, but splitlines has removed them)
Space == {" ", "\t", "\n", "\r"}

\* \w
WordChar == Digit \cup Range(LowerLetters) \cup Range(UpperLetters) \cup {"_"}

\* [-\w:]
MacChar == WordChar \cup {"-", ":"}

\* The value Python's None: no match, nothing found.
None == <<"None">>

\* The one element of a one-element set.  Values bound by a set constructor
\* are computed once, which keeps the operators below linear in the text.
Only(S) == CHOOSE x \in S : TRUE

(***************************************************************************)
(* str.lower() and str.replace('-', ':')                                   *)
(***************************************************************************)
LowerChar(c) ==
    IF \E k \in 1..Len(UpperLetters) : UpperLetters[k] = c
    THEN LowerLetters[CHOOSE k \in 1..Len(UpperLetters) : UpperLetters[k] = c]
    ELSE c

Lower(s) == [k \in 1..Len(s) |-> LowerChar(s[k])]

ReplaceDash(s) == [k \in 1..Len(s) |-> IF s[k] = "-" THEN ":" ELSE s[k]]

\* A plausible slip: the separator is never rewritten.
NormalizeLowerOnly(s) == Lower(s)

\* mac.lower().replace('-', ':')
Normalize(s) == Only({ReplaceDash(t) : t \in {Lower(s)}})

(***************************************************************************)
(* str.splitlines(): breaks at \n, \r and \r\n; no empty last line.        *)
(***************************************************************************)
LineBreak == {"\n", "\r"}

\* The first line break at or after p (Len(s) + 1 when there is none).
BreakFrom(s, p) ==
    CHOOSE q \in p..(Len(s) + 1) :
        /\ \A k \in p..(q - 1) : s[k] \notin LineBreak
        /\ (q = Len(s) + 1 \/ s[q] \in LineBreak)

\* The position after the line break at b: \r\n is one break.
AfterBreak(s, b) ==
    IF s[b] = "\r" /\ b < Len(s) /\ s[b + 1] = "\n" THEN b + 2 ELSE b + 1

RECURSIVE SplitFrom(_, _)
SplitFrom(s, p) ==
    IF p > Len(s) THEN <<>>
    ELSE Only({<<SubSeq(s, p, b - 1)>>
                  \o (IF b > Len(s) THEN <<>> ELSE SplitFrom(s, AfterBreak(s, b)))
               : b \in {BreakFrom(s, p)}})

SplitLines(s) == SplitFrom(s, 1)

(***************************************************************************)
(* re.search(r'(\d+\.\d+\.\d+\.\d+)\s+([-\w:]+)', line)                    *)
(* Neighbouring pieces of the pattern take disjoint character classes, so  *)
(* at a given start the greedy run of each piece is the only candidate;    *)
(* the search returns the match at the leftmost start that has one.        *)
(* A set of positions stands for "matched up to here": empty when the      *)
(* pattern has failed, one position otherwise.                             *)
(***************************************************************************)
\* The first position at or after p whose character is not in Class
\* (Len(line) + 1 when the run reaches the end of the line).
RunEnd(line, p, Class) ==
    CHOOSE q \in p..(Len(line) + 1) :
        /\ \A k \in p..(q - 1) : line[k] \in Class
        /\ (q = Len(line) + 1 \/ line[q] \notin Class)

\* Class+ from a position of P: the position after the (non-empty) run.
Run(line, P, Class) ==
    UNION {{e \in {RunEnd(line, p, Class)} : e > p} : p \in P}

\* \d+\. from a position of P: the position after the dot.
DotGroup(line, P) ==
    {e + 1 : e \in {q \in Run(line, P, Digit) : q <= Len(line) /\ line[q] = "."}}

NoMatch == [found |-> FALSE, start |-> 0, ip |-> <<>>, mac |-> <<>>]

\* The match that starts at s, if there is one: match.groups() is (ip, mac).
MatchAt(line, s) ==
    UNION {UNION {{[found |-> TRUE,
                    start |-> s,
                    ip    |-> SubSeq(line, s, e4 - 1),
                    mac   |-> SubSeq(line, w, m - 1)]
                   : m \in Run(line, {w}, MacChar)}
                  : w \in Run(line, {e4}, Space)}
           : e4 \in Run(line,
                        DotGroup(line, DotGroup(line, DotGroup(line, {s}))),
                        Digit)}

\* A plausible slip: re.match, which tries the start of the line only.
ReMatchAtStart(line) ==
    Only({IF M = {} THEN NoMatch ELSE Only(M)
          : M \in {UNION {MatchAt(line, s) : s \in 1..Len(line) \cap {1}}}})

ReSearch(line) ==
    Only({IF M = {} THEN NoMatch
          ELSE CHOOSE m \in M : \A o \in M : m.start <= o.start
          : M \in {UNION {MatchAt(line, s) : s \in 1..Len(line)}}})

(***************************************************************************)
(* Command outputs offered by the environment                              *)
(***************************************************************************)
IpA == <<"1", "9", "2", ".", "1", "6", "8", ".", "1", ".", "5">>
IpB == <<"1", "0", ".", "0", ".", "0", ".", "1">>
IpIface == <<"1", "9", "2", ".", "1", "6", "8", ".", "1", ".", "1", "0">>
IpLong == <<"1", ".", "2", ".", "3", ".", "4", ".", "5">>
IpBig == <<"9", "9", "9", ".", "1", ".", "1", ".", "1">>
MacUpperDash == <<"A", "A", "-", "B", "B", "-", "C", "C", "-", "D", "D", "-", "E", "E", "-", "F", "F">>
MacLowerColon == <<"a", "a", ":", "b", "b", ":", "c", "c", ":", "d", "d", ":", "e", "e", ":", "f", "f">>
MacMixed == <<"A", "a", "-", "b", "B", ":", "c", "c", "-", "D", "D", "-", "e", "e", "-", "f", "f">>
MacOther == <<"0", "0", "-", "1", "1", "-", "2", "2", "-", "3", "3", "-", "4", "4", "-", "5", "5">>
\* the target of the module's example usage
MacUsage == <<"0", "0", ":", "1", "1", ":", "2", "2", ":", "3", "3", ":", "4", "4", ":", "5", "5">>
MacAbsent == <<"0", "a", ":", "0", "b", ":", "0", "c", ":", "0", "d", ":", "0", "e", ":", "0", "f">>
Gap == <<" ", " ", " ">>

\* '192.168.1.5   AA-BB-CC-DD-EE-FF'
ExampleLine == IpA \o Gap \o MacUpperDash
\* '10.0.0.1 aa:bb:cc:dd:ee:ff': the same MAC under another address
LowerLine == IpB \o <<" ">> \o MacLowerColon
\* '  192.168.1.5   Aa-bB:cc-DD-ee-ff   dynamic': an entry as Windows prints it
WindowsLine == <<" ", " ">> \o IpA \o Gap \o MacMixed
                 \o <<" ", " ", " ", "d", "y", "n", "a", "m", "i", "c">>
\* 'Interface: 192.168.1.10 --- 0xb': the header Windows prints per interface
IfaceLine == <<"I", "n", "t", "e", "r", "f", "a", "c", "e", ":", " ">> \o IpIface
               \o <<" ", "-", "-", "-", " ", "0", "x", "b">>
\* '1.2.3.4.5 00-11-22-33-44-55'
LongLine == IpLong \o <<" ">> \o MacOther
\* '999.1.1.1<TAB>00:11:22:33:44:55'
BigLine == IpBig \o <<"\t">> \o MacUsage
\* '  Internet Address   Physical Address'
HeaderLine == <<" ", " ", "I", "n", "t", "e", "r", "n", "e", "t", " ", "A", "d", "d",
                "r", "e", "s", "s", " ", " ", " ", "P", "h", "y", "s", "i", "c", "a",
                "l", " ", "A", "d", "d", "r", "e", "s", "s">>
\* '? (10.0.0.1) at aa:bb:cc:dd:ee:ff [ether]': an entry as Linux prints it
LinuxLine == <<"?", " ", "(">> \o IpB \o <<")", " ", "a", "t", " ">> \o MacLowerColon
               \o <<" ", "[", "e", "t", "h", "e", "r", "]">>
EmptyLine == <<>>

Lines == {ExampleLine, LowerLine, WindowsLine, IfaceLine, LongLine, BigLine,
          HeaderLine, LinuxLine, EmptyLine}

HistLines == {ExampleLine, LowerLine, HeaderLine}

Targets == {MacUpperDash, MacLowerColon, MacMixed, MacOther, MacUsage, MacAbsent}

HistTargets == {MacUpperDash, MacLowerColon, MacMixed, MacAbsent}

\* The largest number of lines in a command output.
MaxLines == 2

LF == <<"\n">>
CRLF == <<"\r", "\n">>

SeqsUpTo(S, n) == UNION {[1..k -> S] : k \in 0..n}

RECURSIVE JoinFrom(_, _, _)
JoinFrom(ls, k, eol) ==
    IF k > Len(ls) THEN <<>> ELSE ls[k] \o eol \o JoinFrom(ls, k + 1, eol)

\* Every line followed by the end-of-line eol.
JoinLines(ls, eol) == JoinFrom(ls, 1, eol)

Texts(Ls, Eols) == {JoinLines(ls, e) : ls \in SeqsUpTo(Ls, MaxLines), e \in Eols}

\* What os.popen('arp -a').read() can give: the command's standard output,
\* whatever its exit status; nothing when the shell finds no such command
\* (its complaint goes to standard error).
Outcomes ==
    {[cmd |-> "ok", out |-> o] : o \in Texts(Lines, {LF, CRLF})}
        \cup {[cmd |-> "failed", out |-> o] : o \in Texts(Lines, {LF})}
        \cup {[cmd |-> "unavailable", out |-> <<>>]}

HistOutcomes == {[cmd |-> "ok", out |-> o] : o \in Texts(HistLines, {LF})}

(***************************************************************************)
(* The calls                                                               *)
(***************************************************************************)
NoCall == [op |-> "none", target |-> <<>>, out |-> <<>>, result |-> None]

Idle ==
    /\ pc = "idle"
    /\ target_arg = <<>>
    /\ target_mac = <<>>
    /\ cmd = "none"
    /\ arp_output = <<>>
    /\ lines = <<>>
    /\ i = 0
    /\ devices = <<>>
    /\ origin = <<>>
    /\ ret = None
    /\ popens = 0
    /\ searches = 0

Init == Idle /\ prev = NoCall

\* get_ip_from_mac(target_mac) is called
CallGetIpFromMac(Ts) ==
    /\ pc = "idle"
    /\ \E t \in Ts : target_arg' = t /\ target_mac' = t
    /\ pc' = "get_popen"
    /\ UNCHANGED <<cmd, arp_output, lines, i, devices, origin, ret, popens,
                   searches, prev>>

\* A plausible slip: the table is read once and kept for later calls.
PopenCached(at, next, Outs) ==
    /\ pc = at
    /\ IF prev.op = "none"
       THEN \E o \in Outs : cmd' = o.cmd /\ arp_output' = o.out /\ popens' = popens + 1
       ELSE cmd' = "ok" /\ arp_output' = prev.out /\ popens' = popens
    /\ pc' = next
    /\ UNCHANGED <<target_arg, target_mac, lines, i, devices, origin, ret,
                   searches, prev>>

\* arp_output = os.popen('arp -a').read()
Popen(at, next, Outs) ==
    /\ pc = at
    /\ \E o \in Outs : cmd' = o.cmd /\ arp_output' = o.out
    /\ popens' = popens + 1
    /\ pc' = next
    /\ UNCHANGED <<target_arg, target_mac, lines, i, devices, origin, ret,
                   searches, prev>>

GetPopen(Outs) == Popen("get_popen", "get_norm", Outs)

\* A plausible slip: the target is compared as the caller wrote it.
GetNormalizeSkipped ==
    /\ pc = "get_norm"
    /\ pc' = "get_split"
    /\ UNCHANGED <<target_arg, target_mac, cmd, arp_output, lines, i, devices,
                   origin, ret, popens, searches, prev>>

\* target_mac = target_mac.lower().replace('-', ':')
GetNormalize ==
    /\ pc = "get_norm"
    /\ target_mac' = Normalize(target_mac)
    /\ pc' = "get_split"
    /\ UNCHANGED <<target_arg, cmd, arp_output, lines, i, devices, origin, ret,
                   popens, searches, prev>>

\* for line in arp_output.splitlines():
GetSplit ==
    /\ pc = "get_split"
    /\ lines' = SplitLines(arp_output)
    /\ i' = 0
    /\ pc' = "get_loop"
    /\ UNCHANGED <<target_arg, target_mac, cmd, arp_output, devices, origin, ret,
                   popens, searches, prev>>

\* a line the pattern does not match
GetStepNoMatch ==
    /\ pc = "get_loop"
    /\ i < Len(lines)
    /\ ~ReSearch(lines[i + 1]).found
    /\ i' = i + 1
    /\ searches' = searches + 1
    /\ UNCHANGED <<pc, target_arg, target_mac, cmd, arp_output, lines, devices,
                   origin, ret, popens, prev>>

\* a line of another MAC
GetStepOther ==
    /\ pc = "get_loop"
    /\ i < Len(lines)
    /\ \E match \in {ReSearch(lines[i + 1])} :
           /\ match.found
           /\ Normalize(match.mac) # target_mac
    /\ i' = i + 1
    /\ searches' = searches + 1
    /\ UNCHANGED <<pc, target_arg, target_mac, cmd, arp_output, lines, devices,
                   origin, ret, popens, prev>>

\* A plausible slip: the scan goes on after a match and a later one wins.
GetStepFoundKeepGoing ==
    /\ pc = "get_loop"
    /\ i < Len(lines)
    /\ \E match \in {ReSearch(lines[i + 1])} :
           /\ match.found
           /\ Normalize(match.mac) = target_mac
           /\ ret' = match.ip
    /\ i' = i + 1
    /\ searches' = searches + 1
    /\ pc' = IF i + 1 = Len(lines) THEN "get_ret" ELSE "get_loop"
    /\ UNCHANGED <<target_arg, target_mac, cmd, arp_output, lines, devices,
                   origin, popens, prev>>

\* if mac == target_mac: return ip
GetStepFound ==
    /\ pc = "get_loop"
    /\ i < Len(lines)
    /\ \E match \in {ReSearch(lines[i + 1])} :
           /\ match.found
           /\ Normalize(match.mac) = target_mac
           /\ ret' = match.ip
    /\ i' = i + 1
    /\ searches' = searches + 1
    /\ pc' = "get_ret"
    /\ UNCHANGED <<target_arg, target_mac, cmd, arp_output, lines, devices,
                   origin, popens, prev>>

\* A plausible slip: the argument comes back when nothing matched.
GetExhaustedEcho ==
    /\ pc = "get_loop"
    /\ i = Len(lines)
    /\ ret' = target_mac
    /\ pc' = "get_ret"
    /\ UNCHANGED <<target_arg, target_mac, cmd, arp_output, lines, i, devices,
                   origin, popens, searches, prev>>

\* return None
GetExhausted ==
    /\ pc = "get_loop"
    /\ i = Len(lines)
    /\ ret' = None
    /\ pc' = "get_ret"
    /\ UNCHANGED <<target_arg, target_mac, cmd, arp_output, lines, i, devices,
                   origin, popens, searches, prev>>

\* The call is over and its locals are gone; record tells whether the
\* finished call is remembered for comparison with the next one.
Finish(at, op, record) ==
    /\ pc = at
    /\ pc' = "idle"
    /\ target_arg' = <<>>
    /\ target_mac' = <<>>
    /\ cmd' = "none"
    /\ arp_output' = <<>>
    /\ lines' = <<>>
    /\ i' = 0
    /\ devices' = <<>>
    /\ origin' = <<>>
    /\ ret' = None
    /\ popens' = 0
    /\ searches' = 0
    /\ prev' = IF record
               THEN [op |-> op, target |-> target_arg, out |-> arp_output,
                     result |-> ret]
               ELSE prev

GetReturn(record) == Finish("get_ret", "get", record)

\* list_arp_table() is called
CallListArpTable ==
    /\ pc = "idle"
    /\ pc' = "list_popen"
    /\ UNCHANGED <<target_arg, target_mac, cmd, arp_output, lines, i, devices,
                   origin, ret, popens, searches, prev>>

ListPopen(Outs) == Popen("list_popen", "list_init", Outs)

\* devices = []; for line in arp_output.splitlines():
ListInit ==
    /\ pc = "list_init"
    /\ devices' = <<>>
    /\ origin' = <<>>
    /\ lines' = SplitLines(arp_output)
    /\ i' = 0
    /\ pc' = "list_loop"
    /\ UNCHANGED <<target_arg, target_mac, cmd, arp_output, ret, popens,
                   searches, prev>>

ListStepNoMatch ==
    /\ pc = "list_loop"
    /\ i < Len(lines)
    /\ ~ReSearch(lines[i + 1]).found
    /\ i' = i + 1
    /\ searches' = searches + 1
    /\ UNCHANGED <<pc, target_arg, target_mac, cmd, arp_output, lines, devices,
                   origin, ret, popens, prev>>

\* A plausible slip: the MAC is stored as the line gives it.
ListStepAppendRaw ==
    /\ pc = "list_loop"
    /\ i < Len(lines)
    /\ \E match \in {ReSearch(lines[i + 1])} :
           /\ match.found
           /\ devices' = Append(devices, <<match.ip, match.mac>>)
    /\ origin' = Append(origin, i + 1)
    /\ i' = i + 1
    /\ searches' = searches + 1
    /\ UNCHANGED <<pc, target_arg, target_mac, cmd, arp_output, lines, ret,
                   popens, prev>>

\* devices.append((ip, mac)); origin remembers the line each pair is from.
ListStepAppend ==
    /\ pc = "list_loop"
    /\ i < Len(lines)
    /\ \E match \in {ReSearch(lines[i + 1])} :
           /\ match.found
           /\ devices' = Append(devices, <<match.ip, Normalize(match.mac)>>)
    /\ origin' = Append(origin, i + 1)
    /\ i' = i + 1
    /\ searches' = searches + 1
    /\ UNCHANGED <<pc, target_arg, target_mac, cmd, arp_output, lines, ret,
                   popens, prev>>

\* return devices
ListExhausted ==
    /\ pc = "list_loop"
    /\ i = Len(lines)
    /\ ret' = devices
    /\ pc' = "list_ret"
    /\ UNCHANGED <<target_arg, target_mac, cmd, arp_output, lines, i, devices,
                   origin, popens, searches, prev>>

ListReturn(record) == Finish("list_ret", "list", record)

\* Any sequence of calls, each on what the command prints at that moment.
Next ==
    \/ CallGetIpFromMac(Targets)
    \/ GetPopen(Outcomes)
    \/ GetNormalize
    \/ GetSplit
    \/ GetStepNoMatch
    \/ GetStepOther
    \/ GetStepFound
    \/ GetExhausted
    \/ GetReturn(FALSE)
    \/ CallListArpTable
    \/ ListPopen(Outcomes)
    \/ ListInit
    \/ ListStepNoMatch
    \/ ListStepAppend
    \/ ListExhausted
    \/ ListReturn(FALSE)

Spec == Init /\ [][Next]_vars

\* The same calls on a smaller set of outputs, each finished call remembered
\* so that the next can be compared with it.
NextHist ==
    \/ CallGetIpFromMac(HistTargets)
    \/ GetPopen(HistOutcomes)
    \/ GetNormalize
    \/ GetSplit
    \/ GetStepNoMatch
    \/ GetStepOther
    \/ GetStepFound
    \/ GetExhausted
    \/ GetReturn(TRUE)
    \/ CallListArpTable
    \/ ListPopen(HistOutcomes)
    \/ ListInit
    \/ ListStepNoMatch
    \/ ListStepAppend
    \/ ListExhausted
    \/ ListReturn(TRUE)

SpecHist == Init /\ [][NextHist]_vars

(***************************************************************************)
(* Vocabulary of the properties, stated without the operators above        *)
(***************************************************************************)
HexDigit == Digit \cup {"a", "b", "c", "d", "e", "f", "A", "B", "C", "D", "E", "F"}
LowerHexDigit == Digit \cup {"a", "b", "c", "d", "e", "f"}

\* xx:xx:xx:xx:xx:xx, lowercase
IsCanonicalMac(m) ==
    /\ Len(m) = 17
    /\ \A k \in 1..17 : IF k % 3 = 0 THEN m[k] = ":" ELSE m[k] \in LowerHexDigit

\* six groups of two hexadecimal digits, separated by '-' or ':'
IsMacVariant(m) ==
    /\ Len(m) = 17
    /\ \A k \in 1..17 : IF k % 3 = 0 THEN m[k] \in {"-", ":"} ELSE m[k] \in HexDigit

\* the same character up to letter case and '-' versus ':'
EquivChar(a, b) ==
    \/ a = b
    \/ {a, b} = {"-", ":"}
    \/ \E k \in 1..Len(LowerLetters) : {a, b} = {LowerLetters[k], UpperLetters[k]}

\* texts that differ only in letter case and in '-' versus ':'
EquivText(s, t) ==
    /\ Len(s) = Len(t)
    /\ \A k \in 1..Len(s) : EquivChar(s[k], t[k])

\* no uppercase letter and no '-'
IsFolded(s) == \A k \in 1..Len(s) : s[k] \notin (Range(UpperLetters) \cup {"-"})

\* four non-empty groups of digits separated by single dots
IsDottedQuad(s) ==
    /\ Len(s) >= 7
    /\ \A k \in 1..Len(s) : s[k] \in Digit \cup {"."}
    /\ Cardinality({k \in 1..Len(s) : s[k] = "."}) = 3
    /\ s[1] # "." /\ s[Len(s)] # "."
    /\ \A k \in 1..(Len(s) - 1) : ~(s[k] = "." /\ s[k + 1] = ".")

\* a group of one to three digits that reads as a number in 0..255
IsOctet(g) ==
    /\ Len(g) \in 1..3
    /\ \A k \in 1..Len(g) : g[k] \in Digit
    /\ Len(g) = 3 =>
          \/ g[1] \in {"0", "1"}
          \/ g[1] = "2" /\ g[2] \in {"0", "1", "2", "3", "4"}
          \/ g[1] = "2" /\ g[2] = "5" /\ g[3] \in {"0", "1", "2", "3", "4", "5"}

\* an IPv4 address in dotted-quad text form
IsIPv4(s) ==
    /\ IsDottedQuad(s)
    /\ \A a \in 1..Len(s), b \in 1..Len(s) :
          /\ a <= b
          /\ a = 1 \/ s[a - 1] = "."
          /\ b = Len(s) \/ s[b + 1] = "."
          /\ \A k \in a..b : s[k] # "."
          => IsOctet(SubSeq(s, a, b))

\* ip stands in line as a whole token: no digit or dot touches it
IsWholeToken(ip, line) ==
    \E a \in 1..Len(line) :
        \E b \in {a + Len(ip) - 1} :
            /\ b <= Len(line)
            /\ SubSeq(line, a, b) = ip
            /\ a = 1 \/ line[a - 1] \notin Digit \cup {"."}
            /\ b = Len(line) \/ line[b + 1] \notin Digit \cup {"."}

\* the line holds, somewhere, a dotted quad, then whitespace, then a
\* character of a MAC-like token
PatternIn(line) ==
    \E b \in 1..Len(line) :
        /\ line[b] \in Digit
        /\ b < Len(line) /\ line[b + 1] \in Space
        /\ \E c \in (b + 2)..Len(line) :
              /\ line[c] \in MacChar
              /\ \A k \in (b + 1)..(c - 1) : line[k] \in Space
        /\ \E a \in 1..b : IsDottedQuad(SubSeq(line, a, b))

\* the pair d = (ip, mac) can be read off the line: ip is a dotted quad of
\* it, whitespace follows, and mac is the token after it, folded
IsPairOf(d, line) ==
    /\ IsDottedQuad(d[1])
    /\ Len(d[2]) >= 1
    /\ IsFolded(d[2])
    /\ \E a \in 1..Len(line) :
          \E b \in {a + Len(d[1]) - 1} :
              /\ b <= Len(line)
              /\ SubSeq(line, a, b) = d[1]
              /\ \E c \in (b + 2)..Len(line) :
                    \E e \in {c + Len(d[2]) - 1} :
                        /\ e <= Len(line)
                        /\ \A k \in (b + 1)..(c - 1) : line[k] \in Space
                        /\ \A k \in c..e : line[k] \in MacChar
                        /\ EquivText(SubSeq(line, c, e), d[2])
                        /\ e = Len(line) \/ line[e + 1] \notin MacChar

\* The ways to read line as '<ip> <mac-variant>': leading whitespace, an IPv4
\* address from a to b, whitespace, a MAC variant from c, then the end of the
\* line or whitespace and anything.
Readings(line) ==
    {r \in UNION {UNION {{<<a, b, c>> : c \in {x \in (b + 2)..(Len(line) - 16) :
                                              /\ line[x - 1] \in Space
                                              /\ line[x] \in HexDigit}}
                         : b \in {y \in a..(Len(line) - 1) :
                                     /\ line[y] \in Digit
                                     /\ line[y + 1] \in Space}}
                  : a \in {z \in 1..Len(line) :
                              /\ line[z] \in Digit
                              /\ \A k \in 1..(z - 1) : line[k] \in Space}} :
        /\ IsIPv4(SubSeq(line, r[1], r[2]))
        /\ \A k \in (r[2] + 1)..(r[3] - 1) : line[k] \in Space
        /\ IsMacVariant(SubSeq(line, r[3], r[3] + 16))
        /\ r[3] + 16 = Len(line) \/ line[r[3] + 17] \in Space}

IsWellFormed(line) == Readings(line) # {}
IpOf(line) == Only({SubSeq(line, r[1], r[2]) : r \in Readings(line)})
MacOf(line) == Only({SubSeq(line, r[3], r[3] + 16) : r \in Readings(line)})

\* the line shows an address and a MAC address somewhere: an ARP entry in
\* any layout
IsArpEntry(line) ==
    /\ \E c \in 1..(Len(line) - 16) : IsMacVariant(SubSeq(line, c, c + 16))
    /\ \E b \in 1..Len(line) :
          /\ line[b] \in Digit
          /\ \E a \in 1..b : IsDottedQuad(SubSeq(line, a, b))

\* the k-th smallest element of a set of numbers
Kth(M, k) == CHOOSE j \in M : Cardinality({x \in M : x < j}) = k - 1

\* the ip of the first pair of devs whose mac is m, None when there is none
FirstIp(devs, m) ==
    IF \E k \in 1..Len(devs) : devs[k][2] = m
    THEN devs[CHOOSE k \in 1..Len(devs) :
                 /\ devs[k][2] = m
                 /\ \A j \in 1..(k - 1) : devs[j][2] # m][1]
    ELSE None

\* t lowercased, with '-' replaced by ':'
Folded(t) ==
    [k \in 1..Len(t) |->
        CHOOSE c \in MacChar \cup {t[k]} :
            /\ EquivChar(c, t[k])
            /\ c \notin Range(UpperLetters) \cup {"-"}]

(***************************************************************************)
(* Properties                                                              *)
(***************************************************************************)
GetDone == pc = "get_ret"
ListDone == pc = "list_ret"

\* the places of the output where a line ends: \n, and \r unless \n follows
LineEnds ==
    {k \in 1..Len(arp_output) :
        \/ arp_output[k] = "\n"
        \/ /\ arp_output[k] = "\r"
           /\ k = Len(arp_output) \/ arp_output[k + 1] # "\n"}

\* the lines are the output cut at its line ends
LinesAreTheOutputs ==
    /\ \A j \in 1..Len(lines) : \A k \in 1..Len(lines[j]) :
          lines[j][k] \notin {"\n", "\r"}
    /\ Len(lines) = Cardinality(LineEnds)
                       + (IF arp_output # <<>> /\ Len(arp_output) \notin LineEnds
                          THEN 1 ELSE 0)

\* the line numbers of the output whose line holds the pattern
MatchingLines == {j \in 1..Len(lines) : PatternIn(lines[j])}

\* C1: get_ip_from_mac(t) returns the ip of the first pair, in the order of
\* list_arp_table() over the same command output, whose mac is t lowercased
\* with '-' replaced by ':', and None exactly when no pair has that mac.
\* Checked on a get_ip_from_mac call that follows a list_arp_table call which
\* read the same output.
C1_FirstMatchOfList ==
    (GetDone /\ prev.op = "list" /\ prev.out = arp_output)
        => /\ ret = FirstIp(prev.result, Folded(target_arg))
           /\ (ret = None) <=>
                 (\A k \in 1..Len(prev.result) :
                     prev.result[k][2] # Folded(target_arg))

\* two pairs carry the target's MAC and the ip of the first is returned
C1_Witness ==
    /\ GetDone /\ prev.op = "list" /\ prev.out = arp_output
    /\ Len(prev.result) = 2
    /\ prev.result[1][2] = Folded(target_arg)
    /\ prev.result[2][2] = Folded(target_arg)
    /\ prev.result[1][1] # prev.result[2][1]
    /\ ret = prev.result[1][1]

\* C2: list_arp_table() returns exactly one pair for each line that holds
\* the pattern and none for any other line, in the order of the lines; the
\* result is never longer than the number of lines, and every line, matching
\* or not, is passed over without an error (the call reaches its return).
C2_OnePairPerMatchingLine ==
    ListDone
        => /\ ret = devices
           /\ LinesAreTheOutputs
           /\ searches = Len(lines)
           /\ Len(devices) = Cardinality(MatchingLines)
           /\ Len(devices) <= Len(lines)
           /\ \A k \in 1..Len(devices) :
                 IsPairOf(devices[k], lines[Kth(MatchingLines, k)])

\* a line without the pattern is skipped and the line after it gives a pair
C2_Witness ==
    /\ ListDone
    /\ Len(lines) = 2
    /\ ~PatternIn(lines[1])
    /\ lines[1] # <<>>
    /\ Len(devices) = 1
    /\ IsPairOf(devices[1], lines[2])

\* C3: every pair returned by list_arp_table() has a mac of the canonical
\* form xx:xx:xx:xx:xx:xx (six groups of two lowercase hexadecimal digits).
C3_EveryMacCanonical ==
    ListDone => \A k \in 1..Len(devices) : IsCanonicalMac(devices[k][2])

\* C4: every well-formed line '<ip> <mac-variant>' gives the pair of its ip
\* and the lowercase colon-separated form of its MAC, so two lines of the
\* same ip whose MACs differ only in letter case and separator give the same
\* pair; '192.168.1.5   AA-BB-CC-DD-EE-FF' gives
\* ('192.168.1.5', 'aa:bb:cc:dd:ee:ff').
C4_VariantsGiveSamePair ==
    ListDone
        => /\ \A j \in 1..Len(lines) :
                 IsWellFormed(lines[j])
                     => \E k \in 1..Len(devices) :
                           /\ origin[k] = j
                           /\ devices[k][1] = IpOf(lines[j])
                           /\ IsCanonicalMac(devices[k][2])
                           /\ EquivText(devices[k][2], MacOf(lines[j]))
           /\ \A k \in 1..Len(devices), l \in 1..Len(devices) :
                 (/\ IsWellFormed(lines[origin[k]])
                  /\ IsWellFormed(lines[origin[l]])
                  /\ IpOf(lines[origin[k]]) = IpOf(lines[origin[l]])
                  /\ EquivText(MacOf(lines[origin[k]]), MacOf(lines[origin[l]])))
                     => devices[k] = devices[l]
           /\ \A k \in 1..Len(devices) :
                 lines[origin[k]] = ExampleLine
                     => devices[k] = <<IpA, MacLowerColon>>

\* the example line and another spelling of its MAC give one and the same pair
C4_Witness ==
    /\ ListDone
    /\ lines = <<ExampleLine, WindowsLine>>
    /\ MacOf(lines[1]) # MacOf(lines[2])
    /\ devices = <<(<<IpA, MacLowerColon>>), (<<IpA, MacLowerColon>>)>>

\* C5 as claimed: when the command is unavailable, or exits with a non-zero
\* status, or prints nothing, list_arp_table() returns no pair and
\* get_ip_from_mac returns None.
C5_AsClaimed ==
    /\ (ListDone /\ (cmd \in {"unavailable", "failed"} \/ arp_output = <<>>))
           => ret = <<>>
    /\ (GetDone /\ (cmd \in {"unavailable", "failed"} \/ arp_output = <<>>))
           => ret = None

\* C5 as amended: when the command is unavailable or prints nothing, whatever
\* its exit status, list_arp_table() returns no pair and get_ip_from_mac
\* returns None; the exit status itself is never looked at.
C5_EmptyOutputGivesNothing ==
    /\ (ListDone /\ (cmd = "unavailable" \/ arp_output = <<>>)) => ret = <<>>
    /\ (GetDone /\ (cmd = "unavailable" \/ arp_output = <<>>)) => ret = None

\* a lookup returns None after a command that could not be run
C5_Witness ==
    /\ GetDone
    /\ cmd = "unavailable"
    /\ popens = 1
    /\ ret = None

\* C6: for an empty output and for any output none of whose lines is an ARP
\* entry, list_arp_table() returns the empty sequence and get_ip_from_mac
\* returns None.
C6_NoEntriesNoPairs ==
    /\ (ListDone /\ \A j \in 1..Len(lines) : ~IsArpEntry(lines[j]))
           => ret = <<>>
    /\ (GetDone /\ \A j \in 1..Len(lines) : ~IsArpEntry(lines[j]))
           => ret = None

\* C7: two targets that differ only in letter case and in '-' versus ':'
\* get the same result from get_ip_from_mac on the same command output.
\* Checked on two calls in a row that read the same output.
C7_EquivalentTargetsSameResult ==
    (/\ GetDone
     /\ prev.op = "get"
     /\ prev.out = arp_output
     /\ EquivText(prev.target, target_arg))
        => ret = prev.result

\* two spellings of a MAC of the table both find its ip
C7_Witness ==
    /\ GetDone
    /\ prev.op = "get"
    /\ prev.out = arp_output
    /\ EquivText(prev.target, target_arg)
    /\ prev.target # target_arg
    /\ \E k \in 1..Len(target_arg) : prev.target[k] = "-" /\ target_arg[k] = ":"
    /\ ret # None
    /\ ret = prev.result

\* the MACs a call holds: the argument, the match groups of the lines read
\* so far, the stored ones
SeenMacs ==
    {target_arg, target_mac}
        \cup {ReSearch(lines[j]).mac : j \in 1..i}
        \cup {devices[k][2] : k \in 1..Len(devices)}

\* C8: normalization (lowercase, then '-' to ':') is idempotent: a canonical
\* MAC is left unchanged, normalizing twice is normalizing once, and every
\* mac returned by list_arp_table(), like the target once normalized, is a
\* fixed point with no '-' and no uppercase letter.
C8_NormalizeIdempotent ==
    /\ \A m \in SeenMacs :
          /\ Normalize(Normalize(m)) = Normalize(m)
          /\ IsCanonicalMac(m) => Normalize(m) = m
    /\ \A k \in 1..Len(devices) :
          /\ Normalize(devices[k][2]) = devices[k][2]
          /\ IsFolded(devices[k][2])
    /\ pc \in {"get_split", "get_loop", "get_ret"}
          => /\ Normalize(target_mac) = target_mac
             /\ IsFolded(target_mac)
             /\ EquivText(target_mac, target_arg)

\* a MAC printed uppercase with dashes has been returned in canonical form
C8_Witness ==
    /\ ListDone
    /\ \E k \in 1..Len(devices) :
          /\ ReSearch(lines[origin[k]]).mac = MacUpperDash
          /\ devices[k][2] = MacLowerColon
          /\ IsCanonicalMac(devices[k][2])

\* the operation the call in progress belongs to
CurrentOp ==
    IF pc \in {"get_popen", "get_norm", "get_split", "get_loop", "get_ret"}
    THEN "get"
    ELSE IF pc = "idle" THEN "none" ELSE "list"

\* C9: every call runs the command exactly once, before any line is parsed,
\* on every path (an early return on the first match and a return of None
\* included), and its result depends only on its own command output and
\* argument, not on the call before it.
C9_OneInvocationPerCall ==
    /\ popens <= 1
    /\ searches > 0 => popens = 1
    /\ pc \notin {"idle", "get_popen", "list_popen"} => popens = 1
    /\ pc \in {"idle", "get_popen", "list_popen"} => popens = 0 /\ searches = 0
    /\ (/\ pc \in {"get_ret", "list_ret"}
        /\ prev.op = CurrentOp
        /\ prev.out = arp_output
        /\ prev.target = target_arg)
           => ret = prev.result

\* a lookup returns on the first line, with a line left unread, after one
\* run of the command, and the call before it had the same output and target
C9_Witness ==
    /\ GetDone
    /\ popens = 1
    /\ searches = 1
    /\ Len(lines) = 2
    /\ ret # None
    /\ prev.op = "get"
    /\ prev.out = arp_output
    /\ prev.target = target_arg

\* C10: every ip returned is an IPv4 address in dotted-quad form (four
\* decimal octets in 0..255) and is the whole address token of its line, not
\* the tail of a longer token of digits and dots.
C10_EveryIpIsIPv4 ==
    /\ ListDone
          => \A k \in 1..Len(devices) :
                /\ IsIPv4(devices[k][1])
                /\ IsWholeToken(devices[k][1], lines[origin[k]])
    /\ (GetDone /\ ret # None)
          => /\ IsIPv4(ret)
             /\ IsWholeToken(ret, lines[i])

====
